---- MODULE Spec2Model ----
(***************************************************************************)
(* A model of src/lib.rs of lua-config: the closed value type LuaType, the *)
(* typed extraction LuaConvert, the loader LuaConfig (from_string,         *)
(* with_default, execute, get, get_lua_type) and the lowering of           *)
(* interpreter values (value_to_lua_type, convert_map).                    *)
(*                                                                         *)
(* Four specifications share the variables:                                *)
(*   Spec       the loader's lifecycle (from_string, with_default, execute)*)
(*   SpecConv   LuaConvert::from_lua_type applied to a LuaType             *)
(*   SpecQuery  get_lua_type / get applied to an evaluated loader's data   *)
(*   SpecLower  value_to_lua_type run step by step on a graph of tables    *)
(***************************************************************************)
EXTENDS Integers, Sequences, FiniteSets, TLC

VARIABLES
    phase,      \* where the caller stands: "Constructed", "Evaluated", "Failed"
    config,     \* LuaConfig.config
    default,    \* LuaConfig.default (NoDefault = None)
    data,       \* LuaConfig.data
    err,        \* the Err of the last with_default / execute (NoErr = Ok)
    last,       \* the last public operation applied to the loader
    cfgCall,    \* execute: what loading and calling Config gave
    defCall,    \* execute: what loading and calling Default gave
    convIn,     \* SpecConv: the LuaType handed to from_lua_type
    convOut,    \* SpecConv: what from_lua_type returned
    qpath,      \* SpecQuery: the key handed to get / get_lua_type
    qres,       \* SpecQuery: what the query returned
    heap,       \* SpecLower: the interpreter's tables, by identity
    stack,      \* SpecLower: the call stack of value_to_lua_type
    lpc,        \* SpecLower: "run", "done", "panic", "stack_overflow"
    lres        \* SpecLower: the LuaType returned by the outermost call

vars == <<phase, config, default, data, err, last, cfgCall, defCall,
          convIn, convOut, qpath, qres, heap, stack, lpc, lres>>

loaderVars == <<phase, config, default, data, err, last, cfgCall, defCall>>
convVars   == <<convIn, convOut>>
queryVars  == <<qpath, qres>>
lowerVars  == <<heap, stack, lpc, lres>>

----------------------------------------------------------------------------
(* Option<T> *)

None == [some |-> FALSE]

Some(v) == [some |-> TRUE, val |-> v]

EmptyMap == [k \in {} |-> 0]

----------------------------------------------------------------------------
(* 64-bit integers.  TLC's integers are 32 bits wide, so an i64 is kept as *)
(* its four 16-bit limbs in two's complement, most significant first.      *)

Limb == 2^16

LimbTop == Limb - 1

HalfLimb == 2^15

I64(n) == <<0, 0, n \div Limb, n % Limb>>

\* i32::MIN as i64 and i32::MAX as i64
I32MinAsI64 == <<LimbTop, LimbTop, HalfLimb, 0>>

I32MaxAsI64 == <<0, 0, HalfLimb - 1, LimbTop>>

\* the limbs with the sign bit flipped compare as unsigned numbers
I64Key(x) == <<(x[1] + HalfLimb) % Limb, x[2], x[3], x[4]>>

\* x <= y on i64
I64Le(x, y) ==
    LET a == I64Key(x)
        b == I64Key(y)
    IN  \/ a = b
        \/ \E i \in 1..4 : a[i] < b[i] /\ \A j \in 1..(i - 1) : a[j] = b[j]

\* `x as i32`: the low 32 bits, read as a signed number
I64AsI32(x) ==
    IF x[3] < HalfLimb THEN x[3] * Limb + x[4] ELSE (x[3] - Limb) * Limb + x[4]

\* i32::try_from(i64): Err unless i32::MIN <= x <= i32::MAX
TruncatingTryFrom(x) == Some(I64AsI32(x))

I32TryFromI64(x) ==
    IF I64Le(I32MinAsI64, x) /\ I64Le(x, I32MaxAsI64)
    THEN Some(I64AsI32(x))
    ELSE None

----------------------------------------------------------------------------
(* LuaType.  A float is kept as its class and, when finite, its value in   *)
(* tenths; a string as its text.                                           *)

Nil == [kind |-> "Nil"]

Boolean(b) == [kind |-> "Boolean", b |-> b]

Integer(i) == [kind |-> "Integer", i |-> i]

Number(cls, tenths) == [kind |-> "Number", cls |-> cls, tenths |-> tenths]

String(s) == [kind |-> "String", s |-> s]

Table(m) == [kind |-> "Table", m |-> m]

I32Max == (HalfLimb - 1) * Limb + LimbTop

I32Min == (0 - HalfLimb) * Limb

\* `n as i32` on f64: toward zero, saturating, NaN to 0
F64AsI32(n) ==
    CASE n.cls = "nan"    -> 0
      [] n.cls = "posinf" -> I32Max
      [] n.cls = "neginf" -> I32Min
      [] OTHER -> IF n.tenths >= 0 THEN n.tenths \div 10
                                   ELSE 0 - ((0 - n.tenths) \div 10)

\* impl LuaConvert for i32
from_lua_type_i32(lua_type) ==
    CASE lua_type.kind = "Integer" -> I32TryFromI64(lua_type.i)
      [] lua_type.kind = "Number"  -> Some(F64AsI32(lua_type))
      [] OTHER -> None

\* impl LuaConvert for bool
from_lua_type_bool(lua_type) ==
    IF lua_type.kind = "Boolean" THEN Some(lua_type.b) ELSE None

\* impl LuaConvert for String
from_lua_type_String(lua_type) ==
    IF lua_type.kind = "String" THEN Some(lua_type.s) ELSE None

\* impl LuaConvert for HashMap<String, LuaType>
from_lua_type_HashMap(lua_type) ==
    IF lua_type.kind = "Table" THEN Some(lua_type.m) ELSE None

\* LuaType::to::<T>, T one of the target types modelled
Targets == {"i32", "bool", "String", "HashMap"}

to(T, value) ==
    CASE T = "i32"    -> from_lua_type_i32(value)
      [] T = "bool"   -> from_lua_type_bool(value)
      [] T = "String" -> from_lua_type_String(value)
      [] OTHER        -> from_lua_type_HashMap(value)

----------------------------------------------------------------------------
(* rlua::Value, as the tree a script builds.  A Lua string carries whether *)
(* its bytes are valid UTF-8; "Function" stands for every kind             *)
(* value_to_lua_type has no arm for.                                       *)

VNil == [kind |-> "Nil"]

VBoolean(b) == [kind |-> "Boolean", b |-> b]

VInteger(n) == [kind |-> "Integer", n |-> n]

VNumber(cls, tenths) == [kind |-> "Number", cls |-> cls, tenths |-> tenths]

VString(s, utf8) == [kind |-> "String", s |-> s, utf8 |-> utf8]

VTable(m) == [kind |-> "Table", m |-> m]

VFunction == [kind |-> "Function"]

\* unimplemented!(): the thread panics
Panic == [kind |-> "panic"]

\* LuaConfig::value_to_lua_type
RECURSIVE value_to_lua_type(_)
value_to_lua_type(value) ==
    CASE value.kind = "Nil"     -> Nil
      [] value.kind = "Boolean" -> Boolean(value.b)
      [] value.kind = "Integer" -> Integer(value.n)
      [] value.kind = "Number"  -> Number(value.cls, value.tenths)
      [] value.kind = "String"  -> String(IF value.utf8 THEN value.s ELSE "")
      [] value.kind = "Table"   ->
           LET map == [k \in DOMAIN value.m |-> value_to_lua_type(value.m[k])]
           IN  IF \E k \in DOMAIN map : map[k].kind = "panic"
               THEN Panic
               ELSE Table(map)
      [] OTHER -> Panic

\* LuaConfig::convert_map
ConvertMapDroppingTables(lua_map) ==
    LET kept == {k \in DOMAIN lua_map : lua_map[k].kind # "Table"}
    IN  [k \in kept |-> value_to_lua_type(lua_map[k])]

convert_map(lua_map) ==
    [k \in DOMAIN lua_map |-> value_to_lua_type(lua_map[k])]

\* whether convert_map hits unimplemented!() on the way
Panics(lua_map) ==
    \E k \in DOMAIN lua_map : value_to_lua_type(lua_map[k]).kind = "panic"

----------------------------------------------------------------------------
(* Script sources.  A chunk is kept as what running it does: it fails to   *)
(* load, or it assigns globals.  A global is a function, with what a call  *)
(* of it gives, or a value that is no function.                            *)

FnTable(t) == [callable |-> TRUE, ret |-> "table", t |-> t]

\* the call raises, or returns something that is not a table
FnError == [callable |-> TRUE, ret |-> "error", t |-> EmptyMap]

NotCallable == [callable |-> FALSE, ret |-> "error", t |-> EmptyMap]

Chunk(ok, defs) == [ok |-> ok, defs |-> defs]

\* LuaConfig::declare_lua_functions: the host function fetch_data
declare_lua_functions(globals) ==
    [n \in DOMAIN globals \cup {"fetch_data"} |->
        IF n = "fetch_data" THEN FnError ELSE globals[n]]

\* lua.load(code).exec(): the chunk's assignments land in the globals of
\* the Lua state it runs in
exec(globals, code) ==
    [n \in DOMAIN globals \cup DOMAIN code.defs |->
        IF n \in DOMAIN code.defs THEN code.defs[n] ELSE globals[n]]

\* rlua::Table::is_empty
AlwaysNonEmpty(table) == FALSE

is_empty(table) == DOMAIN table = {}

\* LuaConfig::get_hashmap_by_function; "table" is set when the call
\* returned one, "globals" is the Lua state left behind
get_hashmap_by_function(lua, code, function_name) ==
    LET globals == exec(declare_lua_functions(lua), code)
        Out(status, g, t) == [status |-> status, globals |-> g, t |-> t]
    IN  IF ~code.ok
        THEN Out("LoadError", declare_lua_functions(lua), EmptyMap)
        ELSE IF \/ function_name \notin DOMAIN globals
                \/ ~globals[function_name].callable
        THEN Out("MissingFunction", globals, EmptyMap)
        ELSE IF globals[function_name].ret # "table"
        THEN Out("CallError", globals, EmptyMap)
        ELSE IF is_empty(globals[function_name].t)
        THEN Out("EmptyTable", globals, globals[function_name].t)
        ELSE Out("Ok", globals, globals[function_name].t)

\* rlua::Lua::new()
NewLua == EmptyMap

----------------------------------------------------------------------------
(* LuaConfig::execute *)

NoErr == [kind |-> "none", name |-> ""]

Error(kind, name) == [kind |-> kind, name |-> name]

NotCalled == [status |-> "NotCalled", globals |-> EmptyMap, t |-> EmptyMap]

\* lines 149-155: the keys the validation loop can stop at
NoUnknownKeys(config_values, default_values) == {}

UnknownKeys(config_values, default_values) ==
    {key \in DOMAIN config_values : key \notin DOMAIN default_values}

\* lines 157-167: the reconciliation loop
ReconcilePreferringDefault(config_values, default_values) ==
    [key \in DOMAIN default_values |-> default_values[key]]

ReconcileOverConfigKeys(config_values, default_values) ==
    [key \in DOMAIN config_values |-> config_values[key]]

Reconcile(config_values, default_values) ==
    [key \in DOMAIN default_values |->
        IF key \in DOMAIN config_values
        THEN config_values[key]
        ELSE default_values[key]]

Outcome(c, d, e, result) == [cfgCall |-> c, defCall |-> d, err |-> e, data |-> result]

\* self.data = self.convert_map(resulting_values); Ok(self)
Finish(c, d, resulting_values) ==
    IF Panics(resulting_values)
    THEN Outcome(c, d, Error("panic", "unimplemented"), EmptyMap)
    ELSE Outcome(c, d, NoErr, convert_map(resulting_values))

\* every way execute can end on a loader with these sources; the
\* validation loop walks a HashMap, whose order is not fixed, so it may
\* stop at any unknown key
ExecuteOutcomes(cfg, dflt, hasDefault) ==
    LET c == get_hashmap_by_function(NewLua, cfg, "Config")
    IN  IF c.status # "Ok"
        THEN {Outcome(c, NotCalled, Error(c.status, "Config"), EmptyMap)}
        ELSE IF ~hasDefault
        THEN {Finish(c, NotCalled, c.t)}
        ELSE LET d == get_hashmap_by_function(c.globals, dflt, "Default")
             IN  IF d.status # "Ok"
                 THEN {Outcome(c, d, Error(d.status, "Default"), EmptyMap)}
                 ELSE IF UnknownKeys(c.t, d.t) # {}
                 THEN {Outcome(c, d, Error("UnknownConfigKey", key), EmptyMap) :
                          key \in UnknownKeys(c.t, d.t)}
                 ELSE {Finish(c, d, Reconcile(c.t, d.t))}

----------------------------------------------------------------------------
(* The scripts the loader is run on.  Table keys are strings (pairs reads  *)
(* them as String); entry values are of the kinds value_to_lua_type has an *)
(* arm for, nested two levels deep, with a string that is not valid UTF-8. *)
(* Tables that reach themselves, and values of other kinds, are the        *)
(* subject of SpecLower.                                                   *)

Keys == {"a", "b", "c"}

Inner == VTable("a" :> VBoolean(TRUE))

Nested == VTable(("a" :> VNumber("finite", 39)) @@ ("b" :> Inner)
                 @@ ("c" :> VString("s", FALSE)))

EntryValues == {VInteger(I64(1)), Nested}

\* every table over Keys, the empty one included
LuaTables == UNION {[ks -> EntryValues] : ks \in SUBSET Keys}

FullTable == [k \in Keys |-> VInteger(I64(1))]

Behaviours == {FnTable(t) : t \in LuaTables} \cup {FnError, NotCallable}

BadChunk == Chunk(FALSE, EmptyMap)

\* a config source defines Config, or not, and may define Default as well
ConfigSources ==
    {BadChunk, Chunk(TRUE, EmptyMap)}
    \cup {Chunk(TRUE, "Config" :> b) : b \in Behaviours}
    \cup {Chunk(TRUE, ("Config" :> b) @@ ("Default" :> FnTable(FullTable))) :
             b \in Behaviours}

DefaultSources ==
    {BadChunk, Chunk(TRUE, EmptyMap)}
    \cup {Chunk(TRUE, "Default" :> b) : b \in Behaviours}

\* default: None
NoDefault == [ok |-> FALSE, defs |-> EmptyMap, none |-> TRUE]

\* bytes from_utf8 rejects
InvalidUtf8 == [ok |-> FALSE, defs |-> EmptyMap, utf8 |-> FALSE]

Idle == "idle"

LoaderInit ==
    /\ phase = "Constructed"
    /\ config \in ConfigSources
    /\ default = NoDefault
    /\ data = EmptyMap
    /\ err = NoErr
    /\ last = "from_string"
    /\ cfgCall = NotCalled
    /\ defCall = NotCalled

LoaderIdle ==
    /\ phase = Idle /\ config = Idle /\ default = Idle /\ data = EmptyMap
    /\ err = NoErr /\ last = Idle /\ cfgCall = NotCalled /\ defCall = NotCalled

\* no conversion asked for yet
NoConv == [target |-> "none", out |-> None]

\* no query asked yet
NoQuery == [op |-> "none", T |-> "", out |-> None]

ConvIdle == convIn = Nil /\ convOut = NoConv

QueryIdle == qpath = <<>> /\ qres = NoQuery

LowerIdle == heap = EmptyMap /\ stack = <<>> /\ lpc = Idle /\ lres = Nil

\* LuaConfig::from_string, then nothing else yet
Init == LoaderInit /\ ConvIdle /\ QueryIdle /\ LowerIdle

\* LuaConfig::with_default
with_default(bytes) ==
    /\ phase \in {"Constructed", "Evaluated"}
    /\ last' = "with_default"
    /\ IF bytes = InvalidUtf8
       THEN /\ phase' = "Failed"
            /\ err' = Error("Utf8Error", "")
            /\ data' = EmptyMap
            /\ UNCHANGED default
       ELSE /\ default' = bytes
            /\ err' = NoErr
            /\ UNCHANGED <<phase, data>>
    /\ UNCHANGED <<config, cfgCall, defCall, convVars, queryVars, lowerVars>>

\* LuaConfig::execute
execute ==
    /\ phase \in {"Constructed", "Evaluated"}
    /\ \E o \in ExecuteOutcomes(config, default, default # NoDefault) :
          /\ cfgCall' = o.cfgCall
          /\ defCall' = o.defCall
          /\ err' = o.err
          /\ data' = o.data
          /\ phase' = IF o.err = NoErr THEN "Evaluated" ELSE "Failed"
    /\ last' = "execute"
    /\ UNCHANGED <<config, default, convVars, queryVars, lowerVars>>

Next ==
    \/ \E bytes \in DefaultSources \cup {InvalidUtf8} : with_default(bytes)
    \/ execute

Spec == Init /\ [][Next]_vars

----------------------------------------------------------------------------
(* Claims about execute, checked under Spec *)

AfterExecute == last = "execute"

HasDefault == default # NoDefault

\* the entry point was called and returned a table
ReturnedTable(call) == call.status \in {"Ok", "EmptyTable"}

ConfigTable == cfgCall.t

DefaultTable == defCall.t

Succeeded == phase = "Evaluated" /\ err = NoErr

C2_ConfigOverridesDefault ==
    (AfterExecute /\ HasDefault /\ Succeeded)
    => \A k \in DOMAIN DefaultTable :
          /\ k \in DOMAIN data
          /\ data[k] = value_to_lua_type(IF k \in DOMAIN ConfigTable
                                         THEN ConfigTable[k]
                                         ELSE DefaultTable[k])

C2_Witness ==
    /\ AfterExecute /\ HasDefault /\ Succeeded
    /\ "a" \in DOMAIN ConfigTable /\ "a" \in DOMAIN DefaultTable
    /\ ConfigTable["a"] # DefaultTable["a"]
    /\ data["a"] = value_to_lua_type(ConfigTable["a"])
    /\ "b" \in DOMAIN DefaultTable /\ "b" \notin DOMAIN ConfigTable
    /\ data["b"] = value_to_lua_type(DefaultTable["b"])

\* C3, as stated: with a default source attached, whenever Config's table
\* has a key that Default's table lacks, execute fails with the
\* unknown-config-key error naming such a key.
C3_UnknownKeyAlwaysReported ==
    (/\ AfterExecute /\ HasDefault
     /\ ReturnedTable(cfgCall) /\ ReturnedTable(defCall)
     /\ DOMAIN ConfigTable \ DOMAIN DefaultTable # {})
    => (/\ phase = "Failed"
        /\ err.kind = "UnknownConfigKey"
        /\ err.name \in DOMAIN ConfigTable \ DOMAIN DefaultTable)

\* C3, amended: the same, provided Default's table is not empty (an empty
\* Default table fails with the empty-table error first).
C3_UnknownKeyReported ==
    (/\ AfterExecute /\ HasDefault
     /\ ReturnedTable(cfgCall) /\ ReturnedTable(defCall)
     /\ DOMAIN DefaultTable # {}
     /\ DOMAIN ConfigTable \ DOMAIN DefaultTable # {})
    => (/\ phase = "Failed"
        /\ err.kind = "UnknownConfigKey"
        /\ err.name \in DOMAIN ConfigTable \ DOMAIN DefaultTable)

C3_Witness ==
    /\ AfterExecute /\ HasDefault /\ phase = "Failed"
    /\ DOMAIN ConfigTable = {"a", "b", "c"}
    /\ DOMAIN DefaultTable = {"a"}
    /\ err = Error("UnknownConfigKey", "c")

C6_EmptyTableFails ==
    (/\ AfterExecute
     /\ \/ ReturnedTable(cfgCall) /\ DOMAIN ConfigTable = {}
        \/ HasDefault /\ ReturnedTable(defCall) /\ DOMAIN DefaultTable = {})
    => (phase = "Failed" /\ err.kind = "EmptyTable")

C6_Witness ==
    /\ AfterExecute /\ HasDefault /\ phase = "Failed"
    /\ ReturnedTable(cfgCall) /\ DOMAIN ConfigTable = {}
    /\ "Default" \in DOMAIN default.defs
    /\ default.defs["Default"] = FnTable(FullTable)
    /\ err = Error("EmptyTable", "Config")

\* C8: once the loader is evaluated its data never changes, whatever public
\* operation is applied to it afterwards.
C8_EvaluatedDataNeverChanges ==
    [][(phase = "Evaluated" /\ phase' = "Evaluated") => data' = data]_vars

\* C10: if the attached default source defines no callable global Default,
\* execute fails with the missing-function error for Default, whatever the
\* config source defines.
C10_DefaultComesFromDefaultSource ==
    (/\ AfterExecute /\ HasDefault
     /\ cfgCall.status = "Ok"
     /\ default.ok
     /\ \/ "Default" \notin DOMAIN default.defs
        \/ ~default.defs["Default"].callable)
    => (phase = "Failed" /\ err = Error("MissingFunction", "Default"))

----------------------------------------------------------------------------
(* SpecConv: LuaType::to::<T> applied to a LuaType *)

BoundaryLimbs == {0, 1, HalfLimb - 1, HalfLimb, LimbTop}

\* i64 values around zero, the i32 limits and the i64 limits
I64Values == {<<a, b, c, d>> : a \in BoundaryLimbs, b \in BoundaryLimbs,
                               c \in BoundaryLimbs, d \in BoundaryLimbs}

ConvInputs ==
    {Integer(i) : i \in I64Values}
    \cup {Number("finite", t) : t \in {0 - 39, 0 - 5, 0, 5, 39}}
    \cup {Number(cls, 0) : cls \in {"nan", "posinf", "neginf"}}
    \cup {Nil, Boolean(TRUE), Boolean(FALSE), String("s"),
          Table("a" :> Integer(I64(1)))}

ConvInit ==
    /\ convIn \in ConvInputs
    /\ convOut = NoConv
    /\ LoaderIdle /\ QueryIdle /\ LowerIdle

\* value.to::<T>()
Convert(T) ==
    /\ convOut = NoConv
    /\ convOut' = [target |-> T, out |-> to(T, convIn)]
    /\ UNCHANGED <<convIn, loaderVars, queryVars, lowerVars>>

ConvNext == \E T \in Targets : Convert(T)

SpecConv == ConvInit /\ [][ConvNext]_vars

\* x is the sign extension of its low 32 bits
FitsI32(x) ==
    \/ x[1] = 0 /\ x[2] = 0 /\ x[3] < HalfLimb
    \/ x[1] = LimbTop /\ x[2] = LimbTop /\ x[3] >= HalfLimb

\* the i64 with the value of the 32-bit integer n
I64OfI32(n) ==
    IF n >= 0
    THEN <<0, 0, n \div Limb, n % Limb>>
    ELSE <<LimbTop, LimbTop, HalfLimb + ((n - I32Min) \div Limb), (n - I32Min) % Limb>>

\* C7: extracting Integer(i) as an i32 gives i when i is in the signed
\* 32-bit range and nothing otherwise, never a wrapped value.
C7_I32ExtractionChecksRange ==
    (convIn.kind = "Integer" /\ convOut.target = "i32")
    => IF FitsI32(convIn.i)
       THEN /\ convOut.out.some
            /\ convOut.out.val \in I32Min..I32Max
            /\ I64OfI32(convOut.out.val) = convIn.i
       ELSE convOut.out = None

C7_Witness ==
    /\ convIn = Integer(<<0, 1, 0, 1>>)
    /\ convOut = [target |-> "i32", out |-> None]

----------------------------------------------------------------------------
(* SpecQuery: get_lua_type and get on the data of an evaluated loader.  A  *)
(* key is the sequence of its characters.                                  *)

MaxPathLen == 5

PathChars == {"a", "b", "/"}

Paths == UNION {[1..n -> PathChars] : n \in 0..MaxPathLen}

\* the string a sequence of characters spells
RECURSIVE Str(_)
Str(chars) == IF chars = <<>> THEN "" ELSE Head(chars) \o Str(Tail(chars))

\* key.split('/'): the pieces between the slashes, at least one
RECURSIVE SplitFrom(_, _)
SplitFrom(chars, piece) ==
    IF chars = <<>> THEN <<Str(piece)>>
    ELSE IF Head(chars) = "/" THEN <<Str(piece)>> \o SplitFrom(Tail(chars), <<>>)
    ELSE SplitFrom(Tail(chars), Append(piece, Head(chars)))

split(key) == SplitFrom(key, <<>>)

\* LuaConfig::get_lua_type: the loop over the segments, then line 203
RECURSIVE Walk(_, _)
Walk(map, segments) ==
    IF segments = <<>> THEN None
    ELSE LET k == Head(segments)
         IN  IF k \in DOMAIN map
             THEN IF map[k].kind = "Table"
                  THEN Walk(map[k].m, Tail(segments))
                  ELSE None
             ELSE None

get_lua_type(self_data, key) == Walk(self_data, split(key))

\* LuaConfig::get::<T>
get(self_data, T, key) ==
    LET found == get_lua_type(self_data, key)
    IN  IF found.some THEN to(T, found.val) ELSE None

\* what execute leaves in data when no default source is attached
EvaluatedData == {convert_map(t) : t \in LuaTables \ {EmptyMap}}

QueryInit ==
    /\ phase = "Evaluated" /\ last = "execute" /\ err = NoErr
    /\ config = Idle /\ default = NoDefault
    /\ cfgCall = NotCalled /\ defCall = NotCalled
    /\ data \in EvaluatedData
    /\ qpath \in Paths
    /\ qres = NoQuery
    /\ ConvIdle /\ LowerIdle

QueryGetLuaType ==
    /\ qres = NoQuery
    /\ qres' = [op |-> "get_lua_type", T |-> "", out |-> get_lua_type(data, qpath)]
    /\ UNCHANGED <<qpath, loaderVars, convVars, lowerVars>>

QueryGet(T) ==
    /\ qres = NoQuery
    /\ qres' = [op |-> "get", T |-> T, out |-> get(data, T, qpath)]
    /\ UNCHANGED <<qpath, loaderVars, convVars, lowerVars>>

QueryNext ==
    \/ QueryGetLuaType
    \/ \E T \in Targets : QueryGet(T)

SpecQuery == QueryInit /\ [][QueryNext]_vars

\* path addressing: every segment but the last names a Table, the last
\* names any value
RECURSIVE Resolve(_, _)
Resolve(map, segments) ==
    LET k == Head(segments)
    IN  IF k \notin DOMAIN map THEN None
        ELSE IF Len(segments) = 1 THEN Some(map[k])
        ELSE IF map[k].kind = "Table" THEN Resolve(map[k].m, Tail(segments))
        ELSE None

\* C5: get_lua_type returns the value path addressing resolves the key to
\* (and get its typed extraction), and nothing only when the key does not
\* resolve.
C5_QueryReturnsResolvedValue ==
    /\ (qres.op = "get_lua_type")
          => qres.out = Resolve(data, split(qpath))
    /\ (qres.op = "get")
          => qres.out = (LET v == Resolve(data, split(qpath))
                         IN  IF v.some THEN to(qres.T, v.val) ELSE None)

----------------------------------------------------------------------------
(* SpecLower: value_to_lua_type on the interpreter's own values.  A Lua    *)
(* table is a reference, so the tables live in a heap and a table-valued   *)
(* entry holds the identity of the table it points to; a table may point   *)
(* to itself or to a table that points back.  Each call of                 *)
(* value_to_lua_type on a table is a frame on the thread's stack.          *)

NumTables == 2

\* the frames the thread's stack has room for; more than NumTables, so a
\* graph without a cycle never fills it
StackLimit == 4

TableIds == 1..NumTables

Ref(id) == [kind |-> "Ref", id |-> id]

HeapKeys == {"x", "y"}

HeapValues == {VInteger(I64(1)), VFunction} \cup {Ref(id) : id \in TableIds}

HeapTables == UNION {[ks -> HeapValues] : ks \in SUBSET HeapKeys}

Heaps == [TableIds -> HeapTables]

\* the frame of one call on table id: the pairs still to visit, the key
\* whose value a nested call is lowering, and the map built so far
Frame(id, h) == [tbl |-> id, todo |-> DOMAIN h[id], at |-> "", map |-> EmptyMap]

Top == stack[Len(stack)]

SetTop(frame) == [stack EXCEPT ![Len(stack)] = frame]

\* self.value_to_lua_type(&value) on table 1
LowerInit ==
    /\ heap \in Heaps
    /\ stack = <<Frame(1, heap)>>
    /\ lpc = "run"
    /\ lres = Nil
    /\ LoaderIdle /\ ConvIdle /\ QueryIdle

\* lines 310-312, the pair's value is no table: map.insert(key, lowered)
LowerEntry ==
    /\ lpc = "run"
    /\ \E key \in Top.todo :
          LET value == heap[Top.tbl][key]
          IN  /\ value.kind \notin {"Ref", "Function"}
              /\ stack' = SetTop([Top EXCEPT !.todo = @ \ {key},
                                             !.map = (key :> value_to_lua_type(value)) @@ @])
    /\ UNCHANGED <<heap, lpc, lres, loaderVars, convVars, queryVars>>

\* line 312, the pair's value is a table: the recursive call
LowerDescend ==
    /\ lpc = "run"
    /\ Len(stack) < StackLimit
    /\ \E key \in Top.todo :
          LET value == heap[Top.tbl][key]
          IN  /\ value.kind = "Ref"
              /\ stack' = Append(SetTop([Top EXCEPT !.todo = @ \ {key}, !.at = key]),
                                 Frame(value.id, heap))
    /\ UNCHANGED <<heap, lpc, lres, loaderVars, convVars, queryVars>>

\* the recursive call finds no room for its frame: the process aborts
LowerStackOverflow ==
    /\ lpc = "run"
    /\ Len(stack) = StackLimit
    /\ \E key \in Top.todo : heap[Top.tbl][key].kind = "Ref"
    /\ lpc' = "stack_overflow"
    /\ UNCHANGED <<heap, stack, lres, loaderVars, convVars, queryVars>>

\* line 317: unimplemented!()
LowerUnimplemented ==
    /\ lpc = "run"
    /\ \E key \in Top.todo : heap[Top.tbl][key].kind = "Function"
    /\ lpc' = "panic"
    /\ UNCHANGED <<heap, stack, lres, loaderVars, convVars, queryVars>>

\* line 315: LuaType::Table(map), back in the caller (line 312) or out
LowerReturn ==
    /\ lpc = "run"
    /\ Top.todo = {}
    /\ IF Len(stack) = 1
       THEN /\ lres' = Table(Top.map)
            /\ lpc' = "done"
            /\ stack' = <<>>
       ELSE LET caller == stack[Len(stack) - 1]
                rest == SubSeq(stack, 1, Len(stack) - 1)
            IN  /\ stack' = [rest EXCEPT ![Len(rest)] =
                                [caller EXCEPT !.map = (caller.at :> Table(Top.map)) @@ @,
                                               !.at = ""]]
                /\ UNCHANGED <<lpc, lres>>
    /\ UNCHANGED <<heap, loaderVars, convVars, queryVars>>

LowerNext ==
    \/ LowerEntry
    \/ LowerDescend
    \/ LowerStackOverflow
    \/ LowerUnimplemented
    \/ LowerReturn

SpecLower == LowerInit /\ [][LowerNext]_vars

\* C9: lowering ends for every interpreter value, a table graph with a
\* cycle included: it returns or fails explicitly, and never recurses
\* until the stack is used up.
C9_LoweringNeverExhaustsStack == lpc # "stack_overflow"

====
